---- MODULE Spec2Model ----
(***************************************************************************)
(* A model of the pgsrv protocol core: the transaction buffer, the         *)
(* password authenticators and the query dispatcher (query.go).  The       *)
(* three components share no state, so each has its own specification      *)
(* over its own variables:                                                 *)
(*   Spec       the transaction buffer                                     *)
(*   SpecAuth   one authenticate call per step                             *)
(*   SpecQuery  query.Run, one backend call / loop iteration per step      *)
(* A fourth specification, SpecLookup, runs getPassword of one             *)
(* md5ConstantPasswordProvider from several connections at once.           *)
(***************************************************************************)
EXTENDS Integers, Sequences, FiniteSets, TLC

VARIABLES
    \* ---- transaction (src/unnamed/part_001) ----
    in,         \* transaction.in : frontend messages read so far
    out,        \* transaction.out: outgoing messages not yet written
    accepted,   \* history: messages Write appended, in order
    written,    \* history: messages Protocol.write wrote successfully, in order
    attempts,   \* history: every Protocol.write attempt of this transaction
    reads,      \* history: what each readFrontendMessage call returned: (msg, err)
    txCall,     \* the last completed call on the transaction and its result
    nCalls,     \* number of calls made so far (bounded by MaxCalls)
    \* ---- authenticators (src/unnamed/part_000) ----
    authArgs,   \* the run's inputs: authenticator, args["user"], provider, salt
    rw,         \* every rw.Write / rw.Read call of the run, in order
    lookups,    \* every pp.getPassword call of the run and what it returned
    authRet,    \* what authenticate returned: (ok, err)
    \* ---- query dispatcher (src/query.go) ----
    qpc,        \* where Run is: "idle", "loop", "rows" (inside Query's loop), "done"
    remaining,  \* statements of ast.Statements not yet reached by Run's loop
    stmtNo,     \* index of the statement being executed (0 before the first)
    stmtKind,   \* its node type
    cols,       \* Query's cols
    count,      \* Query's count
    qlog,       \* every backend call and every session.Write of the Run, in order
    returns,    \* what each q.Query / q.Exec call returned, in order
    runRet,     \* what Run returned
    \* ---- concurrent lookups (src/unnamed/part_000, lines 92-102) ----
    cpp,        \* the shared provider: backing array and length of cpp.password
    given,      \* history: the password the provider was built with
    conns       \* per connection: where its getPassword call is, user, pu, result

txVars == <<in, out, accepted, written, attempts, reads, txCall, nCalls>>
authVars == <<authArgs, rw, lookups, authRet>>

queryVars == <<qpc, remaining, stmtNo, stmtKind, cols, count, qlog, returns, runRet>>

lookupVars == <<cpp, given, conns>>

vars == <<txVars, authVars, queryVars, lookupVars>>

\* What the steps of one component leave alone.
nonTxVars == <<authVars, queryVars, lookupVars>>
nonAuthVars == <<txVars, queryVars, lookupVars>>
nonQueryVars == <<txVars, authVars, lookupVars>>
nonLookupVars == <<txVars, authVars, queryVars>>

-----------------------------------------------------------------------------
(* Bounds *)

MaxCalls == 5
MaxBody == 2
MaxSalt == 1
MaxStmts == 2
MaxRows == 2
MaxConns == 2
MaxSpare == 2

-----------------------------------------------------------------------------
(* Transaction buffer: src/unnamed/part_001                                *)

\* A backend Message: its Type() byte and an opaque body.
MsgTypes == {"E", "D", "C"}
Message == [type : MsgTypes, body : 1..MaxBody]

\* Frontend messages the codec can hand back.
FrontendMessage == {"Q", "P"}

\* error values: nil, or the error of one Protocol.write / read attempt.
Nil == [kind |-> "nil", attempt |-> 0]
WriteError(n) == [kind |-> "write", attempt |-> n]
ReadError(n) == [kind |-> "read", attempt |-> n]

NoCall == [op |-> "none", arg |-> <<>>, ret |-> Nil]

TxInit ==
    /\ in = <<>>
    /\ out = <<>>
    /\ accepted = <<>>
    /\ written = <<>>
    /\ attempts = <<>>
    /\ reads = <<>>
    /\ txCall = NoCall
    /\ nCalls = 0

\* transaction{p: p}: a fresh buffer for the next exchange.
NewTransaction ==
    /\ nCalls < MaxCalls
    /\ nCalls' = nCalls + 1
    /\ in' = <<>>
    /\ out' = <<>>
    /\ accepted' = <<>>
    /\ written' = <<>>
    /\ attempts' = <<>>
    /\ reads' = <<>>
    /\ txCall' = [op |-> "new", arg |-> <<>>, ret |-> Nil]
    /\ UNCHANGED nonTxVars

\* What t.p.readFrontendMessage() can return on call n: a message and nil, or
\* no message and the error of that read.
NoFrontendMessage == "nil"
ReadResults(n) ==
    {[msg |-> m, err |-> Nil] : m \in FrontendMessage}
        \cup {[msg |-> NoFrontendMessage, err |-> ReadError(n)]}

\* (mutant) whatever the read returned is appended, also on failure.
Incoming_Always(log, r) == Append(log, r.msg)

\* if err == nil { t.in = append(t.in, msg) }: t.in after the read returned r.
Incoming(log, r) == IF r.err = Nil THEN Append(log, r.msg) ELSE log

\* NextFrontendMessage: append the message to t.in only when the read
\* succeeds; return what the read returned.
NextFrontendMessage ==
    /\ nCalls < MaxCalls
    /\ nCalls' = nCalls + 1
    /\ \E r \in ReadResults(nCalls + 1) :
         /\ reads' = Append(reads, r)
         /\ in' = Incoming(in, r)
         /\ txCall' = [op |-> "NextFrontendMessage",
                       arg |-> IF r.err = Nil THEN <<r.msg>> ELSE <<>>,
                       ret |-> r.err]
    /\ UNCHANGED <<out, accepted, written, attempts>>
    /\ UNCHANGED nonTxVars

\* (mutant) looks at the head of the queue instead of its last element.
WriteSkips_Head(q) == Len(q) > 0 /\ q[1].type = "E"

\* (mutant) Write has no guard: it appends whatever is queued.
WriteSkips_Never(q) == FALSE

\* The guard of Write: the last queued message is an error.
WriteSkips(q) == Len(q) > 0 /\ q[Len(q)].type = "E"

\* Write: append msg to t.out unless the last queued message is of type 'E'.
Write(msg) ==
    /\ nCalls < MaxCalls
    /\ nCalls' = nCalls + 1
    /\ IF WriteSkips(out)
         THEN UNCHANGED <<out, accepted>>
         ELSE /\ out' = Append(out, msg)
              /\ accepted' = Append(accepted, msg)
    /\ txCall' = [op |-> "Write", arg |-> <<msg>>, ret |-> Nil]
    /\ UNCHANGED <<in, written, attempts, reads>>
    /\ UNCHANGED nonTxVars

\* The attempt log of a flush over queue q whose first k writes succeed:
\* attempts base+1 .. base+k succeed; attempt base+k+1 (if any message is
\* left) fails and ends the loop.
FlushAttempts(q, k, base) ==
    [i \in 1..(IF k < Len(q) THEN k + 1 ELSE k) |->
        [msg |-> q[i], ok |-> (i <= k), err |-> IF i <= k THEN Nil ELSE WriteError(base + i)]]

\* (mutant) the message whose write failed is dropped as well.
FlushRest_DropFailed(q, k) == SubSeq(q, k + 2, Len(q))

\* (mutant) flush never removes a written message from the queue.
FlushRest_NoPop(q, k) == q

\* What is left of the queue after k successful writes: t.out = t.out[1:], k times.
FlushRest(q, k) == SubSeq(q, k + 1, Len(q))

\* flush: write t.out[0] and drop it, until the queue is empty or a write fails.
\* k is the number of writes the connection lets succeed.
flush ==
    /\ nCalls < MaxCalls
    /\ nCalls' = nCalls + 1
    /\ \E k \in 0..Len(out) :
         LET log == FlushAttempts(out, k, Len(attempts)) IN
            /\ attempts' = attempts \o log
            /\ written' = written \o SubSeq(out, 1, k)
            /\ out' = FlushRest(out, k)
            /\ txCall' = [op |-> "flush", arg |-> <<>>,
                          ret |-> IF Len(log) = 0 THEN Nil ELSE log[Len(log)].err]
    /\ UNCHANGED <<in, accepted, reads>>
    /\ UNCHANGED nonTxVars

TxNext ==
    \/ NewTransaction
    \/ NextFrontendMessage
    \/ \E msg \in Message : Write(msg)
    \/ flush

-----------------------------------------------------------------------------
(* Authenticators: src/unnamed/part_000                                    *)
(* Messages are byte sequences, strings are their byte codes.              *)

\* msg.Type(): the first byte of a message.
Type(m) == m[1]

\* The 4-byte big-endian length field of a message.
Int32(n) == <<(n \div 16777216) % 256, (n \div 65536) % 256, (n \div 256) % 256, n % 256>>

\* const expectedPasswordMessage = "expected password response, got message type %c"
expectedPasswordMessage(c) ==
    <<101, 120, 112, 101, 99, 116, 101, 100, 32, 112, 97, 115, 115, 119, 111,
      114, 100, 32, 114, 101, 115, 112, 111, 110, 115, 101, 44, 32, 103, 111,
      116, 32, 109, 101, 115, 115, 97, 103, 101, 32, 116, 121, 112, 101, 32>> \o <<c>>

\* const passwordDidNotMatch = "Password does not match for user \"%s\""
passwordDidNotMatch(user) ==
    <<80, 97, 115, 115, 119, 111, 114, 100, 32, 100, 111, 101, 115, 32, 110,
      111, 116, 32, 109, 97, 116, 99, 104, 32, 102, 111, 114, 32, 117, 115,
      101, 114, 32, 34>> \o user \o <<34>>

\* The severity FATAL, as the string "FATAL".
FATAL == <<70, 65, 84, 65, 76>>

\* errMsg(WithSeverity(fromErr(err), FATAL)): an 'E' message, its length, the
\* severity field 'S', the message field 'M' and the terminating zero.
errMsg(severity, text) ==
    LET fields == <<83>> \o severity \o <<0>> \o <<77>> \o text \o <<0>> \o <<0>>
    IN  <<69>> \o Int32(4 + Len(fields)) \o fields

\* AuthenticationClearText request.
clearTextPasswordRequest == <<82, 0, 0, 0, 8, 0, 0, 0, 3>>

\* AuthenticationMD5Password request carrying the salt.
md5PasswordRequest(salt) == <<82, 0, 0, 0, 12, 0, 0, 0, 5>> \o salt

\* authOKMsg: the client is now authenticated.
authOKMsg == <<82, 0, 0, 0, 8, 0, 0, 0, 0>>

\* (mutant) the null terminator is taken as part of the password.
extractPassword_KeepsTerminator(m) == SubSeq(m, 6, Len(m))

\* extractPassword: m[5 : len(m)-1].
extractPassword(m) == SubSeq(m, 6, Len(m) - 1)

\* md5.Sum of the standard library, modelled by a short stand-in digest: a
\* deterministic function of the input bytes, two bytes long.
RECURSIVE Md5Fold(_, _)
Md5Fold(bs, h) ==
    IF bs = <<>> THEN h ELSE Md5Fold(Tail(bs), (h * 131 + Head(bs) + 1) % 65521)

Md5Sum(bs) == LET h == Md5Fold(bs, 7) IN <<h \div 256, h % 256>>

\* One digit of fmt's %x.
HexDigit(n) == IF n < 10 THEN 48 + n ELSE 87 + n

\* fmt.Sprintf("%x", bs): two lower-case hex digits per byte.
RECURSIVE Hex(_)
Hex(bs) ==
    IF bs = <<>> THEN <<>>
    ELSE <<HexDigit(Head(bs) \div 16), HexDigit(Head(bs) % 16)>> \o Hex(Tail(bs))

\* (mutant) the stored hash is salted as raw bytes, not as its hex string.
hashWithSalt_RawHash(hash, salt) ==
    <<109, 100, 53>> \o Hex(Md5Sum(hash \o salt))

\* hashWithSalt: "md5" + hex(md5(hex(hash) + salt)).
hashWithSalt(hash, salt) ==
    LET puHash == Hex(hash)
        puHashSalted == puHash \o salt
        finalHash == <<109, 100, 53>> \o Hex(Md5Sum(puHashSalted))
    IN  finalHash

\* The error a failed credential lookup returns.
LookupError == [kind |-> "lookup", attempt |-> 0]

\* passwordProvider.getPassword for the providers of the model: the two of
\* the source, which never fail, and one whose credential store is
\* unreachable: it returns an error, and pp.password beside it.
getPassword(pp, user) ==
    CASE pp.kind = "constant" ->
            [user |-> user, password |-> pp.password, err |-> Nil]
      [] pp.kind = "md5Constant" ->
            [user |-> user, password |-> Md5Sum(pp.password \o user), err |-> Nil]
      [] pp.kind = "unreachable" ->
            [user |-> user, password |-> pp.password, err |-> LookupError]

\* ---- the inputs of a run ----

\* args["user"]: "a", "b".
Users == {<<97>>, <<98>>}

\* Passwords a provider is built with: "", "x", "yz".
Passwords == {<<>>, <<120>>, <<121, 122>>}

Providers == [kind : {"constant", "md5Constant", "unreachable"}, password : Passwords]

\* What getRandomSalt can return (4 bytes).
Salts == {<<s, 255 - s, 0, 16 * s + 1>> : s \in 0..MaxSalt}

\* The credentials a provider of the model can return.
StoredHashes == {getPassword(pp, u).password : pp \in Providers, u \in Users}

\* The MD5 response of the wire protocol:
\* concat('md5', md5(concat(md5(concat(password, username)), random-salt))),
\* each digest as its hex string.
ExpectedMd5Payload(storedHash, salt) ==
    <<109, 100, 53>> \o Hex(Md5Sum(Hex(storedHash) \o salt))

\* A well-formed 'p' message: type, length, payload, null terminator.
PasswordMessage(payload) == <<112>> \o Int32(4 + Len(payload) + 1) \o payload \o <<0>>

\* What a client may send after the challenge: a password response carrying a
\* password or an MD5 response (for any credential and salt), a query 'Q',
\* or a terminate 'X'.
Payloads ==
    Passwords \cup StoredHashes
        \cup {ExpectedMd5Payload(h, s) : h \in StoredHashes, s \in Salts}
Responses ==
    {PasswordMessage(pl) : pl \in Payloads}
        \cup {<<81, 0, 0, 0, 5, 0>>, <<88, 0, 0, 0, 4>>}

\* The outcomes of the run's I/O: whether the first write, the read and the
\* second write succeed, and the message the read returns.
IOs == [w1 : BOOLEAN, r : BOOLEAN, w2 : BOOLEAN, resp : Responses]

\* ---- the run ----

WriteEv(m, ok, n) == [op |-> "Write", msg |-> m, err |-> IF ok THEN Nil ELSE WriteError(n)]
ReadEv(m, ok, n) ==
    [op |-> "Read", msg |-> IF ok THEN m ELSE <<>>, err |-> IF ok THEN Nil ELSE ReadError(n)]

\* (mutant) every message is taken for a password response.
IsPasswordResponse_Any(m) == TRUE

\* m.Type() != 'p' is the protocol violation.
IsPasswordResponse(m) == Type(m) = 112

\* (mutant) the rejection is returned without telling the client.
Reject_Silent(events, looked, text, wok) ==
    [rw |-> events, lookups |-> looked, ok |-> FALSE, err |-> Nil]

\* (mutant) the diagnostic is followed by the credential the provider returned.
Reject_EchoExpected(events, looked, text, wok) ==
    LET shown == IF looked = <<>> THEN text ELSE text \o <<32>> \o looked[1].password
        e == WriteEv(errMsg(FATAL, shown), wok, Len(events) + 1)
    IN  [rw |-> Append(events, e), lookups |-> looked, ok |-> FALSE, err |-> e.err]

\* return false, rw.Write(errMsg(WithSeverity(fromErr(err), FATAL)))
Reject(events, looked, text, wok) ==
    LET e == WriteEv(errMsg(FATAL, text), wok, Len(events) + 1)
    IN  [rw |-> Append(events, e), lookups |-> looked, ok |-> FALSE, err |-> e.err]

\* return true, rw.Write(authOKMsg())
Accept(events, looked, wok) ==
    LET e == WriteEv(authOKMsg, wok, Len(events) + 1)
    IN  [rw |-> Append(events, e), lookups |-> looked, ok |-> TRUE, err |-> e.err]

\* return false, err: an I/O failure before the verdict.
Fail(events, err) == [rw |-> events, lookups |-> <<>>, ok |-> FALSE, err |-> err]

\* noPasswordAuthenticator.authenticate
noPasswordAuthenticate(wok) == Accept(<<>>, <<>>, wok)

\* clearTextAuthenticator.authenticate
clearTextAuthenticate(pp, user, io) ==
    LET e1 == WriteEv(clearTextPasswordRequest, io.w1, 1)
        e2 == ReadEv(io.resp, io.r, 2)
        m == io.resp
    IN  IF e1.err # Nil THEN Fail(<<e1>>, e1.err)
        ELSE IF e2.err # Nil THEN Fail(<<e1, e2>>, e2.err)
        ELSE IF ~IsPasswordResponse(m)
            THEN Reject(<<e1, e2>>, <<>>, expectedPasswordMessage(Type(m)), io.w2)
        ELSE LET got == getPassword(pp, user)
                 expectedPassword == got.password
                 actualPassword == extractPassword(m)
             IN  IF expectedPassword # actualPassword
                   THEN Reject(<<e1, e2>>, <<got>>, passwordDidNotMatch(user), io.w2)
                   ELSE Accept(<<e1, e2>>, <<got>>, io.w2)

\* md5Authenticator.authenticate
md5Authenticate(pp, user, salt, io) ==
    LET e1 == WriteEv(md5PasswordRequest(salt), io.w1, 1)
        e2 == ReadEv(io.resp, io.r, 2)
        m == io.resp
    IN  IF e1.err # Nil THEN Fail(<<e1>>, e1.err)
        ELSE IF e2.err # Nil THEN Fail(<<e1, e2>>, e2.err)
        ELSE IF ~IsPasswordResponse(m)
            THEN Reject(<<e1, e2>>, <<>>, expectedPasswordMessage(Type(m)), io.w2)
        ELSE LET got == getPassword(pp, user)
                 storedHash == got.password
                 expectedHash == hashWithSalt(storedHash, salt)
                 actualHash == extractPassword(m)
             IN  IF expectedHash # actualHash
                   THEN Reject(<<e1, e2>>, <<got>>, passwordDidNotMatch(user), io.w2)
                   ELSE Accept(<<e1, e2>>, <<got>>, io.w2)

NoProvider == [kind |-> "none", password |-> <<>>]

AuthInit ==
    /\ authArgs = [kind |-> "none", user |-> <<>>, pp |-> NoProvider, salt |-> <<>>]
    /\ rw = <<>>
    /\ lookups = <<>>
    /\ authRet = [ok |-> FALSE, err |-> Nil]

\* authenticate runs once, at the very beginning of every session.
NotRun == authArgs.kind = "none"

NoPasswordAuth ==
    /\ NotRun
    /\ \E user \in Users, wok \in BOOLEAN :
         LET r == noPasswordAuthenticate(wok) IN
            /\ authArgs' = [kind |-> "noPassword", user |-> user,
                            pp |-> NoProvider, salt |-> <<>>]
            /\ rw' = r.rw
            /\ lookups' = r.lookups
            /\ authRet' = [ok |-> r.ok, err |-> r.err]
    /\ UNCHANGED nonAuthVars

ClearTextAuth ==
    /\ NotRun
    /\ \E pp \in Providers, user \in Users, io \in IOs :
         LET r == clearTextAuthenticate(pp, user, io) IN
            /\ authArgs' = [kind |-> "clearText", user |-> user,
                            pp |-> pp, salt |-> <<>>]
            /\ rw' = r.rw
            /\ lookups' = r.lookups
            /\ authRet' = [ok |-> r.ok, err |-> r.err]
    /\ UNCHANGED nonAuthVars

Md5Auth ==
    /\ NotRun
    /\ \E pp \in Providers, user \in Users, salt \in Salts, io \in IOs :
         LET r == md5Authenticate(pp, user, salt, io) IN
            /\ authArgs' = [kind |-> "md5", user |-> user, pp |-> pp, salt |-> salt]
            /\ rw' = r.rw
            /\ lookups' = r.lookups
            /\ authRet' = [ok |-> r.ok, err |-> r.err]
    /\ UNCHANGED nonAuthVars

AuthNext ==
    \/ NoPasswordAuth
    \/ ClearTextAuth
    \/ Md5Auth
-----------------------------------------------------------------------------
(* Query dispatcher: src/query.go                                          *)
(* Messages are records of a type and the strings they carry.              *)

\* The node types Run and tagger.Tag switch on; "OtherStmt" is any node type
\* that neither switch names.
QueryKinds == {"VariableShowStmt", "SelectStmt"}
ExecKinds == {"InsertStmt", "CreateTableAsStmt", "DeleteStmt", "FetchStmt",
              "CopyStmt", "UpdateStmt", "OtherStmt"}
StmtKinds == QueryKinds \cup ExecKinds

\* Run's type switch with the case for show statements missing.
Route_ShowToExec(kind) ==
    IF kind = "SelectStmt" THEN "Query" ELSE "Exec"

\* Run's type switch: the method of q a statement of this node type goes to.
Route(kind) ==
    CASE kind = "VariableShowStmt" -> "Query"
      [] kind = "SelectStmt" -> "Query"
      [] OTHER -> "Exec"

\* Errors of the parser and of the backend; io.EOF ends a row iteration.
EOF == [kind |-> "EOF", attempt |-> 0]
BackendError(kind, n) == [kind |-> kind, attempt |-> n]

NoMsg == [type |-> "", body |-> <<>>]
\* err.Error(), the text an error message carries.
ErrorText(err) == err.kind \o " error " \o ToString(err.attempt)
\* errMsg(err)
errorMsg(err) == [type |-> "E", body |-> <<ErrorText(err)>>]
\* rowDescriptionMsg(cols)
rowDescriptionMsg(cs) == [type |-> "T", body |-> cs]
\* dataRowMsg(strings)
dataRowMsg(strings) == [type |-> "D", body |-> strings]
\* completeMsg(tag)
completeMsg(tag) == [type |-> "C", body |-> <<tag>>]

\* driver.Value: an integer, a string or nil.
IntV(n) == [kind |-> "int", i |-> n, s |-> ""]
StrV(str) == [kind |-> "string", i |-> 0, s |-> str]
NilV == [kind |-> "nil", i |-> 0, s |-> ""]

\* fmt.Sprintf("%v", v)
SprintfV(v) ==
    CASE v.kind = "int" -> ToString(v.i)
      [] v.kind = "string" -> v.s
      [] v.kind = "nil" -> "<nil>"

\* (mutant) every column gets the text of the first value.
Stringify_First(row) == [i \in 1..Len(row) |-> SprintfV(row[1])]

\* for i, v := range row { strings[i] = fmt.Sprintf("%v", v) }
Stringify(row) == [i \in 1..Len(row) |-> SprintfV(row[i])]

\* (mutant) the count is taken before the last row is counted.
SelectTag_OffByOne(n) == "SELECT " \o ToString(IF n > 0 THEN n - 1 ELSE 0)

\* fmt.Sprintf("SELECT %d", count)
SelectTag(n) == "SELECT " \o ToString(n)

\* tagger.Tag without the object-id component of the insert tag.
Tag_InsertNoOid(kind, affected) ==
    LET tag == CASE kind = "InsertStmt" -> "INSERT"
                 [] kind = "CreateTableAsStmt" -> "SELECT"
                 [] kind = "DeleteStmt" -> "DELETE"
                 [] kind = "FetchStmt" -> "FETCH"
                 [] kind = "CopyStmt" -> "COPY"
                 [] kind = "UpdateStmt" -> "UPDATE"
                 [] OTHER -> "UPDATE"
    IN  tag \o " " \o ToString(affected)

\* tagger.Tag once RowsAffected has succeeded.
Tag(kind, affected) ==
    LET tag == CASE kind = "InsertStmt" -> "INSERT 0"
                 [] kind = "CreateTableAsStmt" -> "SELECT"
                 [] kind = "DeleteStmt" -> "DELETE"
                 [] kind = "FetchStmt" -> "FETCH"
                 [] kind = "CopyStmt" -> "COPY"
                 [] kind = "UpdateStmt" -> "UPDATE"
                 [] OTHER -> "UPDATE"
    IN  tag \o " " \o ToString(affected)

\* ---- what the backend can answer ----

\* rows.Columns()
ColumnLists == {<<"id", "name">>, <<"setting">>}
\* The rows an iterator over the columns cs can yield: a row of integers and
\* a row with a string and nil for several columns, one string for one column.
RowsOf(cs) ==
    IF Len(cs) = 1 THEN {<<StrV("on")>>}
    ELSE {[i \in 1..Len(cs) |-> IntV(i)],
          [i \in 1..Len(cs) |-> IF i = 1 THEN StrV("b") ELSE NilV]}
\* RowsAffected()
AffectedCounts == {0, 3}
\* Tags a result implementing ResultTag reports.
SelfTags == {"VACUUM"}

\* ---- the log ----

\* A backend call by function `by` (Query, Exec) for statement n.
CallEv(by, ev, n, data, err) ==
    [by |-> by, ev |-> ev, stmt |-> n, data |-> data, msg |-> NoMsg, err |-> err]
\* q.session.Write(m) by function `by`; k is its position in the log.
SessionWrite(by, n, m, ok, k) ==
    [by |-> by, ev |-> "Write", stmt |-> n, data |-> <<>>, msg |-> m,
     err |-> IF ok THEN Nil ELSE WriteError(k)]

QueryInit ==
    /\ qpc = "idle"
    /\ remaining = 0
    /\ stmtNo = 0
    /\ stmtKind = "none"
    /\ cols = <<>>
    /\ count = 0
    /\ qlog = <<>>
    /\ returns = <<>>
    /\ runRet = Nil

\* (mutant) Run goes on to the next statement without looking at err.
AfterReturn_Ignore(log, fn, n, err, wok) ==
    /\ returns' = Append(returns, [fn |-> fn, stmt |-> n, err |-> err])
    /\ qlog' = log
    /\ qpc' = "loop"
    /\ runRet' = runRet

\* Query or Exec has returned err for statement n to Run's loop, its events
\* being in log:
\* if err != nil { return q.session.Write(errMsg(err)) }, else the loop goes on.
AfterReturn(log, fn, n, err, wok) ==
    /\ returns' = Append(returns, [fn |-> fn, stmt |-> n, err |-> err])
    /\ IF err # Nil
         THEN LET w == SessionWrite("Run", n, errorMsg(err), wok, Len(log) + 1)
              IN  /\ qlog' = Append(log, w)
                  /\ qpc' = "done"
                  /\ runRet' = w.err
         ELSE /\ qlog' = log
              /\ qpc' = "loop"
              /\ runRet' = runRet

\* Run, up to its loop: parser.Parse fails and the error message is written,
\* or it yields n statements.
Parse ==
    /\ qpc = "idle"
    /\ \/ \E wok \in BOOLEAN :
            LET w == SessionWrite("Run", 0, errorMsg(BackendError("parse", 0)), wok, 1)
            IN  /\ qlog' = <<w>>
                /\ qpc' = "done"
                /\ runRet' = w.err
                /\ remaining' = 0
       \/ \E n \in 0..MaxStmts :
            /\ remaining' = n
            /\ qpc' = "loop"
            /\ UNCHANGED <<qlog, runRet>>
    /\ UNCHANGED <<stmtNo, stmtKind, cols, count, returns>>
    /\ UNCHANGED nonQueryVars

\* Run's loop has no statement left: return nil.
Finish ==
    /\ qpc = "loop"
    /\ remaining = 0
    /\ qpc' = "done"
    /\ runRet' = Nil
    /\ UNCHANGED <<remaining, stmtNo, stmtKind, cols, count, qlog, returns>>
    /\ UNCHANGED nonQueryVars

\* Run's loop reaches a VariableShowStmt or SelectStmt: q.Query up to its row
\* loop.  session.Query fails (the error message is written and the result
\* of that write returned), or the row description is written.
DispatchQuery ==
    /\ qpc = "loop"
    /\ remaining > 0
    /\ remaining' = remaining - 1
    /\ stmtNo' = stmtNo + 1
    /\ \E kind \in StmtKinds, w1 \in BOOLEAN, w2 \in BOOLEAN :
         /\ Route(kind) = "Query"
         /\ stmtKind' = kind
         /\ \/ LET n == stmtNo + 1
                   e == BackendError("query", n)
                   c == CallEv("Query", "Query", n, <<>>, e)
                   w == SessionWrite("Query", n, errorMsg(e), w1, Len(qlog) + 2)
               IN  /\ AfterReturn(qlog \o <<c, w>>, "Query", n, w.err, w2)
                   /\ cols' = <<>>
            \/ \E cs \in ColumnLists :
                 LET n == stmtNo + 1
                     c == CallEv("Query", "Query", n, cs, Nil)
                     w == SessionWrite("Query", n, rowDescriptionMsg(cs), w1, Len(qlog) + 2)
                 IN  /\ cols' = cs
                     /\ IF w.err # Nil
                          THEN AfterReturn(qlog \o <<c, w>>, "Query", n, w.err, w2)
                          ELSE /\ qlog' = qlog \o <<c, w>>
                               /\ qpc' = "rows"
                               /\ UNCHANGED <<returns, runRet>>
    /\ count' = 0
    /\ UNCHANGED nonQueryVars

\* The rows the backend has yielded during this Run (bounded by MaxRows):
\* each one had its data-row message written.
RowsYielded ==
    Cardinality({i \in 1..Len(qlog) : qlog[i].ev = "Write" /\ qlog[i].msg.type = "D"})

\* What rows.Next(row) can return: io.EOF, another error, or a row.
NextResults ==
    {[row |-> <<>>, err |-> EOF], [row |-> <<>>, err |-> BackendError("next", count + 1)]}
        \cup {[row |-> r, err |-> Nil] : r \in RowsOf(cols)}

\* (mutant) an error other than io.EOF is not looked at.
NextClass_IgnoreError(err) == IF err = EOF THEN "eof" ELSE "row"

\* if err == io.EOF { break } else if err != nil { return ... }
NextClass(err) == IF err = EOF THEN "eof" ELSE IF err # Nil THEN "error" ELSE "row"

\* One iteration of Query's row loop: rows.Next returns io.EOF (the
\* completion message is written and Query returns), another error (the
\* error message is written and Query returns) or a row (its data-row message
\* is written; Query returns if that write fails, else counts the row).
NextRow ==
    /\ qpc = "rows"
    /\ \E res \in NextResults, w1 \in BOOLEAN, w2 \in BOOLEAN :
         LET c == CallEv("Query", "Next", stmtNo, res.row, res.err)
             class == NextClass(res.err)
             m == CASE class = "eof" -> completeMsg(SelectTag(count))
                    [] class = "error" -> errorMsg(res.err)
                    [] class = "row" -> dataRowMsg(Stringify(res.row))
             w == SessionWrite("Query", stmtNo, m, w1, Len(qlog) + 2)
         IN  /\ class = "row" => RowsYielded < MaxRows
             /\ IF class = "row" /\ w.err = Nil
                  THEN /\ qlog' = qlog \o <<c, w>>
                       /\ count' = count + 1
                       /\ UNCHANGED <<qpc, returns, runRet>>
                  ELSE /\ AfterReturn(qlog \o <<c, w>>, "Query", stmtNo, w.err, w2)
                       /\ count' = count
    /\ UNCHANGED <<remaining, stmtNo, stmtKind, cols>>
    /\ UNCHANGED nonQueryVars

\* Run's loop reaches any other statement: q.Exec.  session.Exec fails, or
\* the result reports its own tag (ResultTag), or the tagger derives it from
\* RowsAffected; Tag() can fail either way.
DispatchExec ==
    /\ qpc = "loop"
    /\ remaining > 0
    /\ remaining' = remaining - 1
    /\ stmtNo' = stmtNo + 1
    /\ \E kind \in StmtKinds, w1 \in BOOLEAN, w2 \in BOOLEAN :
         LET n == stmtNo + 1
             k == Len(qlog) + 3
         IN
         /\ Route(kind) = "Exec"
         /\ stmtKind' = kind
         /\ \/ LET e == BackendError("exec", n)
                   c == CallEv("Exec", "Exec", n, <<>>, e)
                   w == SessionWrite("Exec", n, errorMsg(e), w1, k - 1)
               IN  AfterReturn(qlog \o <<c, w>>, "Exec", n, w.err, w2)
            \/ \E self \in BOOLEAN :
                 LET c == CallEv("Exec", "Exec", n, <<>>, Nil)
                     e == BackendError(IF self THEN "tag" ELSE "affected", n)
                     t == CallEv("Exec", IF self THEN "Tag" ELSE "RowsAffected", n, <<>>, e)
                     w == SessionWrite("Exec", n, errorMsg(e), w1, k)
                 IN  AfterReturn(qlog \o <<c, t, w>>, "Exec", n, w.err, w2)
            \/ \E tag \in SelfTags :
                 LET c == CallEv("Exec", "Exec", n, <<>>, Nil)
                     t == CallEv("Exec", "Tag", n, <<tag>>, Nil)
                     w == SessionWrite("Exec", n, completeMsg(tag), w1, k)
                 IN  AfterReturn(qlog \o <<c, t, w>>, "Exec", n, w.err, w2)
            \/ \E affected \in AffectedCounts :
                 LET c == CallEv("Exec", "Exec", n, <<>>, Nil)
                     t == CallEv("Exec", "RowsAffected", n, <<affected>>, Nil)
                     w == SessionWrite("Exec", n, completeMsg(Tag(kind, affected)), w1, k)
                 IN  AfterReturn(qlog \o <<c, t, w>>, "Exec", n, w.err, w2)
    /\ UNCHANGED <<cols, count>>
    /\ UNCHANGED nonQueryVars

QueryNext ==
    \/ Parse
    \/ Finish
    \/ DispatchQuery
    \/ NextRow
    \/ DispatchExec
-----------------------------------------------------------------------------
(* Concurrent lookups on one md5ConstantPasswordProvider:                  *)
(* src/unnamed/part_000, lines 92-102.  Each connection runs getPassword   *)
(* in its own goroutine; a step is one statement of getPassword.  A Go     *)
(* slice is a view (array, len) of a backing array whose length is the     *)
(* slice's capacity; cpp.password is shared by all connections.            *)

Connections == 1..MaxConns

\* No getPassword call yet on a connection.
Idle == [pc |-> "idle", user |-> <<>>, shared |-> FALSE, array |-> <<>>, len |-> 0,
         ret |-> <<>>]

LookupInit ==
    /\ cpp = [made |-> FALSE, array |-> <<>>, len |-> 0]
    /\ given = <<>>
    /\ conns = [c \in Connections |-> Idle]

\* A byte slice of length Len(password) and capacity Len(password) + spare:
\* the capacity of a slice is whatever its maker allocated.
MakeSlice(password, spare) ==
    [array |-> password \o [i \in 1..spare |-> 0], len |-> Len(password)]

\* &md5ConstantPasswordProvider{password: ...}
NewProvider ==
    /\ ~cpp.made
    /\ \E password \in Passwords, spare \in 0..MaxSpare :
         /\ cpp' = [made |-> TRUE] @@ MakeSlice(password, spare)
         /\ given' = password
    /\ UNCHANGED conns
    /\ UNCHANGED nonLookupVars

\* The bytes a slice (array, len) denotes.
Bytes(array, len) == SubSeq(array, 1, len)

\* Go's append(s, elems...) keeps the backing array of s when its capacity
\* holds the result.
AppendInPlace(s, elems) == s.len + Len(elems) <= Len(s.array)

\* The backing array after append has stored elems behind the first len bytes.
StoreBehind(array, len, elems) ==
    [i \in 1..Len(array) |->
        IF i > len /\ i <= len + Len(elems) THEN elems[i - len] ELSE array[i]]

\* pu := append(cpp.password, []byte(user)...) on connection c: in place, in
\* the backing array all connections share, or in a new array of its own.
getPasswordAppend(c) ==
    /\ cpp.made
    /\ conns[c].pc = "idle"
    /\ \E user \in Users :
         IF AppendInPlace(cpp, user)
           THEN /\ cpp' = [cpp EXCEPT !.array = StoreBehind(cpp.array, cpp.len, user)]
                /\ conns' = [conns EXCEPT ![c] =
                       [pc |-> "sum", user |-> user, shared |-> TRUE, array |-> <<>>,
                        len |-> cpp.len + Len(user), ret |-> <<>>]]
           ELSE /\ cpp' = cpp
                /\ conns' = [conns EXCEPT ![c] =
                       [pc |-> "sum", user |-> user, shared |-> FALSE,
                        array |-> Bytes(cpp.array, cpp.len) \o user,
                        len |-> cpp.len + Len(user), ret |-> <<>>]]
    /\ UNCHANGED given
    /\ UNCHANGED nonLookupVars

\* puHash := md5.Sum(pu); return puHash[:], nil on connection c.
getPasswordSum(c) ==
    /\ conns[c].pc = "sum"
    /\ LET pu == IF conns[c].shared THEN Bytes(cpp.array, conns[c].len)
                 ELSE Bytes(conns[c].array, conns[c].len)
       IN  conns' = [conns EXCEPT ![c].pc = "done", ![c].ret = Md5Sum(pu)]
    /\ UNCHANGED <<cpp, given>>
    /\ UNCHANGED nonLookupVars

LookupNext ==
    \/ NewProvider
    \/ \E c \in Connections : getPasswordAppend(c)
    \/ \E c \in Connections : getPasswordSum(c)

-----------------------------------------------------------------------------
(* Specifications *)

Init == TxInit /\ AuthInit /\ QueryInit /\ LookupInit

\* The transaction buffer.
Next == TxNext

Spec == Init /\ [][Next]_vars

\* The authenticators.
SpecAuth == Init /\ [][AuthNext]_vars

\* The query dispatcher.
SpecQuery == Init /\ [][QueryNext]_vars

\* Concurrent getPassword calls on one md5ConstantPasswordProvider.
SpecLookup == Init /\ [][LookupNext]_vars

-----------------------------------------------------------------------------
(* Transaction buffer claims *)

WriteStep == nCalls' = nCalls + 1 /\ txCall'.op = "Write"
FlushStep == nCalls' = nCalls + 1 /\ txCall'.op = "flush"

\* Write has accepted an error message on this instance (at any time).
HasAcceptedError == \E i \in 1..Len(accepted) : accepted[i].type = "E"
\* An accepted error message is still queued (no flush has written it yet).
ErrorPending == \E i \in 1..Len(out) : out[i].type = "E"

\* C1 (as stated): once Write has accepted an error message, every later
\* Write on the same instance returns nil and leaves the outgoing queue
\* unchanged, whatever calls (flush, NextFrontendMessage) came in between.
C1_PoisonedForLife ==
    [][(HasAcceptedError /\ WriteStep) => (out' = out /\ txCall'.ret = Nil)]_vars

\* C1 (amended): once Write has accepted an error message, every later Write
\* returns nil and leaves the outgoing queue unchanged for as long as that
\* error message is still in the queue, whatever calls came in between; a
\* flush that writes the error message out ends the poisoning.
C1_PoisonedWhilePending ==
    [][WriteStep =>
        /\ txCall'.ret = Nil
        /\ IF ErrorPending
             THEN out' = out
             ELSE out' = Append(out, txCall'.arg[1])
    ]_vars

\* A Write was dropped after a flush attempt, with the error still queued.
C1_Witness ==
    /\ txCall.op = "Write"
    /\ ErrorPending
    /\ Len(attempts) > 0
    /\ Len(out) + Len(written) = Len(accepted)
    /\ txCall.arg[1] # out[Len(out)]

\* The attempts a step added to the attempt log.
NewAttempts == SubSeq(attempts', Len(attempts) + 1, Len(attempts'))

\* C2: flush writes the queue front to back; if the write of the i-th message
\* is the first to fail, no write is attempted after it, flush returns that
\* write's error and the queue left is [mi..mk]; if no write fails flush
\* returns nil and leaves the queue empty.
C2_FlushStopsAtFirstFailure ==
    [][FlushStep =>
        LET new == NewAttempts
            k == Len(out)
        IN  /\ Len(new) <= k
            /\ \A j \in 1..Len(new) : new[j].msg = out[j]
            /\ \A j \in 1..(Len(new) - 1) : new[j].ok
            /\ \/ /\ Len(new) = k
                  /\ \A j \in 1..k : new[j].ok
                  /\ txCall'.ret = Nil
                  /\ out' = <<>>
               \/ /\ Len(new) >= 1
                  /\ ~new[Len(new)].ok
                  /\ txCall'.ret = new[Len(new)].err
                  /\ txCall'.ret # Nil
                  /\ out' = SubSeq(out, Len(new), k)
    ]_vars

\* A flush that wrote at least one message, then failed with two still queued.
C2_Witness ==
    /\ txCall.op = "flush"
    /\ txCall.ret # Nil
    /\ Len(written) >= 1
    /\ Len(out) >= 2
    /\ ~attempts[Len(attempts)].ok
    /\ attempts[Len(attempts)].msg = out[1]

\* C3: the messages written to the connection followed by the outgoing queue
\* are exactly the messages Write accepted, in acceptance order.
C3_FifoNoLossNoDup == written \o out = accepted

\* A failed flush was retried and wrote the message that had failed, with
\* something still queued.
C3_Witness ==
    /\ Len(out) >= 1
    /\ \E i, j \in 1..Len(attempts) :
          /\ i < j
          /\ ~attempts[i].ok
          /\ attempts[j].ok
          /\ attempts[j].msg = attempts[i].msg
          /\ Len(written) >= 2

-----------------------------------------------------------------------------
(* Authenticator claims *)

\* A run by one of the two password authenticators.
PasswordRun == authArgs.kind \in {"clearText", "md5"}
\* No rw.Write and no rw.Read of the run failed.
NoIOFailure == \A i \in 1..Len(rw) : rw[i].err = Nil
\* The run read a message.
ResponseRead == Len(rw) >= 2 /\ rw[2].op = "Read" /\ rw[2].err = Nil
\* The payload of a well-formed password response: the bytes between the
\* length field and the null terminator.
PayloadOf(m) == [i \in 1..(Len(m) - 6) |-> m[i + 5]]
\* The salt carried by an AuthenticationMD5Password request.
SaltOf(m) == <<m[10], m[11], m[12], m[13]>>
\* The messages the run wrote (or tried to write).
Writes == {rw[i].msg : i \in {j \in 1..Len(rw) : rw[j].op = "Write"}}
\* The AuthenticationOk message of the wire protocol: 'R', length 8, code 0.
AuthenticationOk == <<82, 0, 0, 0, 8, 0, 0, 0, 0>>

\* The index of the zero that ends the string starting at m[i].
RECURSIVE CStrEnd(_, _)
CStrEnd(m, i) == IF i > Len(m) \/ m[i] = 0 THEN i ELSE CStrEnd(m, i + 1)
\* The value of field `code` among the fields of an error message starting
\* at m[i]; <<>> when the message has no such field.
RECURSIVE ErrFieldFrom(_, _, _)
ErrFieldFrom(m, i, code) ==
    IF i > Len(m) \/ m[i] = 0 THEN <<>>
    ELSE IF m[i] = code THEN SubSeq(m, i + 1, CStrEnd(m, i + 1) - 1)
    ELSE ErrFieldFrom(m, CStrEnd(m, i + 1) + 1, code)
IsErrorMessage(m) == Len(m) >= 6 /\ m[1] = 69
ErrSeverity(m) == ErrFieldFrom(m, 6, 83)
ErrText(m) == ErrFieldFrom(m, 6, 77)
IsFatalError(m) == IsErrorMessage(m) /\ ErrSeverity(m) = <<70, 65, 84, 65, 76>>

\* The two diagnostics, as the texts a client reads.
IsExpectedPasswordText(t, c) ==
    /\ Len(t) = 46
    /\ SubSeq(t, 1, 26) = <<101, 120, 112, 101, 99, 116, 101, 100, 32, 112, 97, 115, 115,
                            119, 111, 114, 100, 32, 114, 101, 115, 112, 111, 110, 115, 101>>
    /\ t[46] = c
IsMismatchText(t) ==
    /\ Len(t) >= 23
    /\ SubSeq(t, 1, 23) = <<80, 97, 115, 115, 119, 111, 114, 100, 32, 100, 111, 101, 115,
                            32, 110, 111, 116, 32, 109, 97, 116, 99, 104>>

\* C4: in a run of the MD5 authenticator that read a 'p' response and had no
\* I/O failure, ok is true exactly when the response payload equals
\* "md5" + hex(MD5(hex(storedHash) + salt)) for the salt of this run's
\* challenge and the hash the provider returned for the claimed user; the
\* payload of any other salt or any other stored hash is rejected.
C4_Md5AcceptsIffHashMatches ==
    (authArgs.kind = "md5" /\ NoIOFailure /\ ResponseRead /\ rw[2].msg[1] = 112) =>
        LET salt == SaltOf(rw[1].msg)
            payload == PayloadOf(rw[2].msg)
        IN  /\ Len(lookups) = 1
            /\ lookups[1].user = authArgs.user
            /\ salt = authArgs.salt
            /\ authRet.ok <=> (payload = ExpectedMd5Payload(lookups[1].password, salt))
            /\ \A h \in StoredHashes, s \in Salts :
                  (<<h, s>> # <<lookups[1].password, salt>>
                     /\ payload = ExpectedMd5Payload(h, s)) => ~authRet.ok

\* The MD5 authenticator accepted a correct response, for a provider that
\* derives the hash from the user name.
C4_Witness ==
    /\ authArgs.kind = "md5"
    /\ authArgs.pp.kind = "md5Constant"
    /\ NoIOFailure
    /\ authRet.ok
    /\ PayloadOf(rw[2].msg) = ExpectedMd5Payload(Md5Sum(authArgs.pp.password \o authArgs.user),
                                                  SaltOf(rw[1].msg))

\* C5: in a run of the clear-text authenticator that read a 'p' response,
\* ok is true exactly when the response payload is byte-equal to the
\* credential the provider returned for the claimed user (the empty password
\* against an empty credential included).
C5_ClearTextAcceptsIffEqual ==
    (authArgs.kind = "clearText" /\ ResponseRead /\ rw[2].msg[1] = 112) =>
        /\ Len(lookups) = 1
        /\ lookups[1].user = authArgs.user
        /\ authRet.ok <=> (PayloadOf(rw[2].msg) = lookups[1].password)

\* The empty password was accepted against an empty credential, and a
\* non-empty one against itself.
C5_Witness ==
    /\ authArgs.kind = "clearText"
    /\ ResponseRead
    /\ authRet.ok
    /\ authArgs.pp.kind = "constant"
    /\ PayloadOf(rw[2].msg) = <<>>
    /\ lookups[1].password = <<>>

\* C6: a run of a password authenticator without I/O failure writes the
\* challenge, reads one message and writes one final message: auth OK when
\* it returns ok, a fatal error message otherwise, and nothing after it; a
\* run that returns ok = false never writes auth OK.
C6_HandshakeShape ==
    /\ (PasswordRun /\ NoIOFailure) =>
          /\ Len(rw) = 3
          /\ rw[1].op = "Write"
          /\ rw[1].msg[1] = 82
          /\ SubSeq(rw[1].msg, 6, 9) =
                (IF authArgs.kind = "md5" THEN <<0, 0, 0, 5>> ELSE <<0, 0, 0, 3>>)
          /\ rw[2].op = "Read"
          /\ rw[3].op = "Write"
          /\ authRet.ok => rw[3].msg = AuthenticationOk
          /\ ~authRet.ok => IsFatalError(rw[3].msg)
          /\ authRet.err = Nil
    /\ (PasswordRun /\ ~authRet.ok) => AuthenticationOk \notin Writes

\* A rejected run without I/O failure.
C6_Witness ==
    /\ PasswordRun
    /\ NoIOFailure
    /\ Len(rw) = 3
    /\ ~authRet.ok
    /\ IsFatalError(rw[3].msg)
    /\ Len(lookups) = 1

\* C7: when getPassword returns an error, the password authenticators reject:
\* ok = false, a fatal error message is written and auth OK is not, whatever
\* the client answered.
C7_LookupFailureRejects ==
    (PasswordRun /\ Len(lookups) >= 1 /\ lookups[1].err # Nil) =>
        /\ ~authRet.ok
        /\ Len(rw) = 3
        /\ IsFatalError(rw[3].msg)
        /\ AuthenticationOk \notin Writes

\* C8: when the message read after the challenge is not of type 'p', the
\* password authenticators return ok = false, write a fatal error message
\* with the 'expected password response' diagnostic (not the mismatch one),
\* do not call getPassword and never write auth OK.
C8_UnexpectedTypeIsViolation ==
    (PasswordRun /\ ResponseRead /\ rw[2].msg[1] # 112) =>
        /\ ~authRet.ok
        /\ Len(rw) = 3
        /\ rw[3].op = "Write"
        /\ IsFatalError(rw[3].msg)
        /\ IsExpectedPasswordText(ErrText(rw[3].msg), rw[2].msg[1])
        /\ ~IsMismatchText(ErrText(rw[3].msg))
        /\ lookups = <<>>
        /\ AuthenticationOk \notin Writes

\* A query message was read where the password response was due.
C8_Witness ==
    /\ PasswordRun
    /\ ResponseRead
    /\ rw[2].msg[1] = 81
    /\ Len(rw) = 3
    /\ IsErrorMessage(rw[3].msg)

-----------------------------------------------------------------------------
(* Query dispatcher claims *)

\* The events of q.Query / q.Exec for statement i, and by kind.
EventsOf(i) == SelectSeq(qlog, LAMBDA e : e.stmt = i /\ e.by # "Run")
CallsOf(i) == SelectSeq(EventsOf(i), LAMBDA e : e.ev # "Write")
WritesOf(i) == SelectSeq(EventsOf(i), LAMBDA e : e.ev = "Write")
\* Run's own writes for statement i.
RunWritesOf(i) == SelectSeq(qlog, LAMBDA e : e.stmt = i /\ e.by = "Run")
\* q.Query / q.Exec has returned for statement i.
Returned(i) == \E j \in 1..Len(returns) : returns[j].stmt = i
ReturnOf(i) == returns[CHOOSE j \in 1..Len(returns) : returns[j].stmt = i]

\* Statement i went down the query path, the backend's Query call and the
\* whole row iteration succeeded, and so did every write.
QuerySucceeded(i) ==
    LET calls == CallsOf(i)
        writes == WritesOf(i)
    IN  /\ Returned(i)
        /\ Len(calls) >= 2
        /\ calls[1].ev = "Query"
        /\ calls[1].err = Nil
        /\ \A j \in 2..(Len(calls) - 1) : calls[j].err = Nil
        /\ calls[Len(calls)].err = EOF
        /\ \A j \in 1..Len(writes) : writes[j].err = Nil

\* The number of rows the iterator of statement i yielded.
RowCount(i) == Len(CallsOf(i)) - 2

\* C9: for a row-producing statement whose backend call and row iteration
\* succeed with n rows and whose writes all succeed, Query writes exactly one
\* row description (the columns in the backend's order), then n data rows in
\* iteration order (each value as its text), then one completion message
\* with tag "SELECT n", and nothing else.
C9_QueryMessageSequence ==
    \A i \in 1..stmtNo :
        QuerySucceeded(i) =>
            LET calls == CallsOf(i)
                writes == WritesOf(i)
                n == RowCount(i)
            IN  /\ Len(writes) = n + 2
                /\ writes[1].msg = [type |-> "T", body |-> calls[1].data]
                /\ \A j \in 1..n :
                      writes[j + 1].msg =
                         [type |-> "D",
                          body |-> [k \in 1..Len(calls[j + 1].data) |->
                                       SprintfV(calls[j + 1].data[k])]]
                /\ writes[n + 2].msg = [type |-> "C", body |-> <<"SELECT " \o ToString(n)>>]
                /\ RunWritesOf(i) = <<>>
                /\ ReturnOf(i).err = Nil

\* A Run in which one query returned no row and another two different rows.
C9_Witness ==
    /\ qpc = "done"
    /\ \E i, j \in 1..stmtNo :
          /\ QuerySucceeded(i) /\ RowCount(i) = 0
          /\ QuerySucceeded(j) /\ RowCount(j) = 2
          /\ CallsOf(j)[2].data # CallsOf(j)[3].data
          /\ Len(CallsOf(j)[1].data) = 2

\* rows.Next failed (with an error other than io.EOF) at position p of the log.
NextFailedAt(p) ==
    /\ qlog[p].ev = "Next"
    /\ qlog[p].err # Nil
    /\ qlog[p].err # EOF

\* C10: when rows.Next returns an error other than io.EOF, Query writes one
\* error message (carrying that error) and, for that statement, writes no
\* data row and no completion message after it and does not call the
\* iterator again.
C10_IterationErrorAborts ==
    \A p \in 1..Len(qlog) :
        NextFailedAt(p) =>
            /\ p < Len(qlog)
            /\ qlog[p + 1].ev = "Write"
            /\ qlog[p + 1].by = "Query"
            /\ qlog[p + 1].stmt = qlog[p].stmt
            /\ qlog[p + 1].msg = [type |-> "E", body |-> <<ErrorText(qlog[p].err)>>]
            /\ \A r \in (p + 2)..Len(qlog) :
                  ~(qlog[r].stmt = qlog[p].stmt /\ qlog[r].by = "Query")
            /\ Returned(qlog[p].stmt)

\* The iterator failed after one row had been emitted, and Run went on to a
\* later statement.
C10_Witness ==
    \E p \in 1..Len(qlog) :
        /\ NextFailedAt(p)
        /\ p > 2
        /\ qlog[p - 1].msg.type = "D"
        /\ qlog[p - 1].stmt = qlog[p].stmt
        /\ stmtNo > qlog[p].stmt

\* The backend failed for statement i: a call of q.Query / q.Exec to the
\* backend (Query, Exec, Next, RowsAffected, Tag) returned an error.
BackendFailed(i) ==
    \E j \in 1..Len(CallsOf(i)) : CallsOf(i)[j].err # Nil /\ CallsOf(i)[j].err # EOF

\* C11: whenever the backend fails for a statement, q.Query / q.Exec writes an
\* error message to the client and also returns a non-nil error.
C11_ErrorWrittenAndReturned ==
    \A i \in 1..stmtNo :
        (Returned(i) /\ BackendFailed(i)) =>
            /\ \E j \in 1..Len(WritesOf(i)) : WritesOf(i)[j].msg.type = "E"
            /\ ReturnOf(i).err # Nil

\* The error messages whose write was attempted for statement i, by q.Query,
\* q.Exec or Run, whether or not the write succeeded.
ErrorWritesOf(i) ==
    SelectSeq(qlog, LAMBDA e : e.stmt = i /\ e.ev = "Write" /\ e.msg.type = "E")

\* C12: Run never writes a second error message for a statement whose
\* q.Query / q.Exec call already wrote one: at most one error message is
\* attempted per statement, also when writes fail.
C12_NoDuplicateErrorMessage ==
    \A i \in 1..stmtNo : Len(ErrorWritesOf(i)) <= 1

\* The tag prefixes of the command tagging table, by statement category.
TagPrefix ==
    [k \in ExecKinds |->
        IF k = "InsertStmt" THEN "INSERT 0 "
        ELSE IF k = "DeleteStmt" THEN "DELETE "
        ELSE IF k = "FetchStmt" THEN "FETCH "
        ELSE IF k = "CopyStmt" THEN "COPY "
        ELSE IF k = "CreateTableAsStmt" THEN "SELECT "
        ELSE "UPDATE "]

\* The backend calls of the statement Run dispatched last were exactly
\* session.Exec and then `ev`, both without error.
ExecSucceededWith(ev) ==
    /\ stmtNo >= 1
    /\ stmtKind \in ExecKinds
    /\ LET calls == CallsOf(stmtNo)
       IN  /\ Len(calls) = 2
           /\ calls[1].ev = "Exec" /\ calls[1].err = Nil
           /\ calls[2].ev = ev /\ calls[2].err = Nil

\* C13: for a command whose exec succeeds with affected count n and whose
\* result does not report its own tag, the one message q.Exec writes is a
\* completion message with the tag of the tagging table ("INSERT 0 n",
\* "DELETE n", "UPDATE n", "FETCH n", "COPY n", "SELECT n" for create-table-as,
\* "UPDATE n" otherwise); when the result reports its own tag, that tag is
\* written verbatim.
C13_CompletionTags ==
    (stmtNo >= 1 /\ stmtKind \in ExecKinds) =>
        LET calls == CallsOf(stmtNo)
            writes == WritesOf(stmtNo)
        IN  /\ ExecSucceededWith("RowsAffected") =>
                 /\ Len(writes) = 1
                 /\ writes[1].msg =
                      [type |-> "C",
                       body |-> <<TagPrefix[stmtKind] \o ToString(calls[2].data[1])>>]
            /\ ExecSucceededWith("Tag") =>
                 /\ Len(writes) = 1
                 /\ writes[1].msg = [type |-> "C", body |-> calls[2].data]

\* An insert with affected count 3 was tagged, and a result reporting its own
\* tag was seen in the same run.
C13_Witness ==
    /\ stmtNo = 2
    /\ stmtKind = "InsertStmt"
    /\ ExecSucceededWith("RowsAffected")
    /\ CallsOf(2)[2].data = <<3>>
    /\ WritesOf(2)[1].msg.body = <<"INSERT 0 3">>
    /\ Len(CallsOf(1)) = 2 /\ CallsOf(1)[2].ev = "Tag"
    /\ WritesOf(1)[1].msg.body = <<"VACUUM">>

\* The calls of the backend's query and exec entry points made for statement i.
EntryCallsOf(i) ==
    SelectSeq(qlog, LAMBDA e : e.stmt = i /\ (e.ev = "Query" \/ e.ev = "Exec"))

\* C14: for every statement of the batch that Run reaches, exactly one of the
\* backend's query call and exec call is made, exactly once; select and show
\* statements go to the query call and every other category to the exec call.
C14_TwoWayDispatch ==
    /\ \A i \in 1..stmtNo : Len(EntryCallsOf(i)) = 1
    /\ stmtNo >= 1 =>
         EntryCallsOf(stmtNo)[1].ev =
            (IF stmtKind \in {"SelectStmt", "VariableShowStmt"} THEN "Query" ELSE "Exec")

\* A batch of two statements: the first went to one path and the second, a show
\* statement, to the query path.
C14_Witness ==
    /\ stmtNo = 2
    /\ stmtKind = "VariableShowStmt"
    /\ EntryCallsOf(1)[1].ev = "Exec"
    /\ EntryCallsOf(2)[1].ev = "Query"

\* The run ended in a credential mismatch: it read a 'p' response and
\* returned ok = false.
CredentialMismatch ==
    PasswordRun /\ ResponseRead /\ rw[2].msg[1] = 112 /\ ~authRet.ok

\* The one rejection message for a user name, byte by byte: type 'E', the
\* length, severity "FATAL", the text
\* Password does not match for user "<name>", and the terminator.
RejectionFor(name) ==
    LET text == <<80, 97, 115, 115, 119, 111, 114, 100, 32, 100, 111, 101, 115, 32,
                  110, 111, 116, 32, 109, 97, 116, 99, 104, 32, 102, 111, 114, 32,
                  117, 115, 101, 114, 32, 34>> \o name \o <<34>>
    IN  <<69, 0, 0, 0, 4 + 7 + (Len(text) + 2) + 1>>
            \o <<83, 70, 65, 84, 65, 76, 0>> \o <<77>> \o text \o <<0>> \o <<0>>

\* C16: the message a run writes on a credential mismatch is a function of the
\* user name alone (so two mismatch runs with the same user name write the
\* identical message, whatever the submitted and expected credentials and the
\* salt were); it has severity FATAL and its text names only the user.
C16_RejectionDependsOnUserOnly ==
    CredentialMismatch =>
        /\ Len(rw) = 3
        /\ rw[3].op = "Write"
        /\ rw[3].msg = RejectionFor(authArgs.user)
        /\ IsFatalError(rw[3].msg)

\* An MD5 run for user "a" whose non-empty response did not match a non-empty
\* stored credential.
C16_Witness ==
    /\ CredentialMismatch
    /\ authArgs.kind = "md5"
    /\ authArgs.user = <<97>>
    /\ PayloadOf(rw[2].msg) # <<>>
    /\ lookups[1].password # <<>>
    /\ rw[3].msg = RejectionFor(<<97>>)

\* C18: once a write to the connection fails during Run, Run attempts no
\* further write and executes no further statement (the failed write is the
\* last event of the Run), and Run returns that write's error.
C18_WriteFailureIsFinal ==
    \A p \in 1..Len(qlog) :
        (qlog[p].ev = "Write" /\ qlog[p].err # Nil) =>
            /\ p = Len(qlog)
            /\ qpc = "done" => runRet = qlog[p].err

\* Event p of the Run is the error message q.Query / q.Exec wrote for a
\* statement whose backend call failed.
BackendErrorWrittenAt(p) ==
    /\ qlog[p].ev = "Write"
    /\ qlog[p].by # "Run"
    /\ qlog[p].msg.type = "E"
    /\ BackendFailed(qlog[p].stmt)

\* C19: once the backend has failed for a statement and the error message for
\* it has been written, Run sends no later statement to the backend and
\* writes no row-description, data-row or completion message after that
\* error message.
C19_RunStopsAtFirstFailure ==
    \A p \in 1..Len(qlog) :
        BackendErrorWrittenAt(p) =>
            \A k \in (p + 1)..Len(qlog) :
                /\ qlog[k].ev = "Write"
                /\ qlog[k].msg.type \notin {"T", "D", "C"}

\* The positions of the error messages in the outgoing queue.
ErrorPositions == {i \in 1..Len(out) : out[i].type = "E"}

\* C17: in every reachable state of a transaction the outgoing queue holds at
\* most one error message, and if it holds one it is the last element.
C17_ErrorIsLastInQueue ==
    /\ Cardinality(ErrorPositions) <= 1
    /\ ErrorPositions \subseteq {Len(out)}

\* A flush stopped by a write failure after its first write; the queue then
\* holds an error message behind another message, and the last call was a
\* Write.
C17_Witness ==
    /\ Len(out) = 2
    /\ out[1].type # "E"
    /\ out[2].type = "E"
    /\ Len(written) >= 1
    /\ txCall.op = "Write"
    /\ Len(attempts) > Len(written)

NextFrontendMessageStep ==
    nCalls' = nCalls + 1 /\ txCall'.op = "NextFrontendMessage"

\* The messages of the successful reads among rs, in read order.
RECURSIVE SuccessfulReads(_)
SuccessfulReads(rs) ==
    IF rs = <<>> THEN <<>>
    ELSE IF Head(rs).err.kind = "nil"
        THEN <<Head(rs).msg>> \o SuccessfulReads(Tail(rs))
        ELSE SuccessfulReads(Tail(rs))

\* C20: NextFrontendMessage appends the message it read to the end of the
\* incoming log exactly when the read succeeds, and returns it; when the read
\* fails it returns the read's error unchanged and leaves the incoming log
\* unchanged; in both cases the outgoing queue is unchanged.  Hence the
\* incoming log is the sequence of successfully read messages in read order.
C20_IncomingLogsSuccessfulReads ==
    [][ /\ NextFrontendMessageStep =>
            LET r == reads'[Len(reads')] IN
            /\ Len(reads') = Len(reads) + 1
            /\ out' = out
            /\ txCall'.ret = r.err
            /\ r.err.kind = "nil" =>
                 (in' = in \o <<r.msg>> /\ txCall'.arg = <<r.msg>>)
            /\ r.err.kind # "nil" => in' = in
        /\ in' = SuccessfulReads(reads')
      ]_vars

\* A failed read between two successful ones: the log holds the two messages,
\* and messages are queued for writing.
C20_Witness ==
    /\ Len(reads) = 3
    /\ reads[2].err.kind = "read"
    /\ in = <<"Q", "P">>
    /\ txCall.op = "NextFrontendMessage"
    /\ txCall.ret = Nil
    /\ Len(out) >= 1

-----------------------------------------------------------------------------
(* Concurrent lookup claims *)

\* C15: when several connections call getPassword on the same
\* md5ConstantPasswordProvider at the same time, under every interleaving each
\* call returns MD5(password || its own username) and the provider's stored
\* password is unchanged.
C15_LookupsDoNotInterfere ==
    /\ cpp.made => Bytes(cpp.array, cpp.len) = given
    /\ \A c \in Connections :
         conns[c].pc = "done" => conns[c].ret = Md5Sum(given \o conns[c].user)

====
